---- MODULE Spec2Model ----
(***************************************************************************)
(* The contextual toolbar of src/plugins/common/ui/lib/toolbar.js: the     *)
(* local Tab class (activation rule, activate / deactivate), the tab set   *)
(* of an editable with the jQuery UI tabs widget that displays it, and the *)
(* Ui.toolbar singleton (show / hide / checkActiveTabs and the three event *)
(* handlers with the deferred hide).                                       *)
(*                                                                         *)
(* JavaScript indices are kept 0-based (tab.index, the widget's selected   *)
(* option); position k of a TLA+ sequence holds the tab with index k - 1.  *)
(***************************************************************************)
EXTENDS Integers, Sequences, FiniteSets, TLC

\* ----------------------------------------------------------------- bounds
\* the longest list of effective elements a selection carries
MaxElems == 1
\* the longest list passed to shouldActivateForElements directly
MaxList == 2
\* the most callbacks (timeouts and fadeOut completions) pending at once
MaxPending == 2

\* ------------------------------------------------------------ input sets
Editables == {"e1", "e2"}

\* Element descriptors are tag names; NoElement is the null the code pushes.
Tags == {"p", "ul", "table"}
NoElement == "null"
\* the tag names tried when the activation test is called directly
PureTags == Tags \cup {"ol", "span"}

RECURSIVE SeqsUpTo(_, _)
SeqsUpTo(S, n) ==
    IF n = 0 THEN {<<>>}
    ELSE LET shorter == SeqsUpTo(S, n - 1)
         IN  shorter \cup {Append(s, t) : s \in {x \in shorter : Len(x) = n - 1}, t \in S}

\* The range argument of checkActiveTabs: undefined, a range without
\* markupEffectiveAtStart, or a range carrying a list of effective elements.
UndefinedRange == [defined |-> FALSE, hasMarkup |-> FALSE, markup |-> <<>>]
BareRange == [defined |-> TRUE, hasMarkup |-> FALSE, markup |-> <<>>]
MarkupRange(m) == [defined |-> TRUE, hasMarkup |-> TRUE, markup |-> m]
Ranges == {UndefinedRange, BareRange} \cup {MarkupRange(m) : m \in SeqsUpTo(Tags, MaxElems)}

\* An activateOn value: its JavaScript typeof and a printable value.
Rule(t, v) == [type |-> t, val |-> v]
RuleUndefined == Rule("undefined", "")
RuleTrue == Rule("boolean", "true")
RuleFalse == Rule("boolean", "false")
RuleLists == Rule("string", "ul,ol")
RuleTable == Rule("string", "table")
RuleNumber == Rule("number", "42")
RuleNull == Rule("object", "null")
\* function( el ) { return !!el && el.nodeName == 'P'; }
RuleIsParagraph == Rule("function", "isParagraph")
Rules == {RuleUndefined, RuleTrue, RuleFalse, RuleLists, RuleTable,
          RuleNumber, RuleNull, RuleIsParagraph}

\* settings.toolbar.tabs of an editable: absent, or a list of tab options
\* (only activateOn matters here).
NoTabs == [present |-> FALSE, list |-> <<>>]
TabList(l) == [present |-> TRUE, list |-> l]
Configs ==
    { NoTabs,
      TabList(<<RuleLists, RuleTable, RuleFalse>>),
      TabList(<<RuleUndefined, RuleIsParagraph, RuleNumber>>) }

\* ------------------------------------------------- the activation predicate
\* jQuery( el ).is( selector ) on a tag-name descriptor: the selector is a
\* comma-separated list of tag names.
SelectorTags(selector) ==
    CASE selector = "ul,ol" -> {"ul", "ol"}
      [] selector = "table" -> {"table"}
      [] selector = "p" -> {"p"}
      [] OTHER -> {}

Matches(el, selector) == el \in SelectorTags(selector)

\* A caller-supplied function rule, applied to el.
ApplyFunction(name, el) ==
    CASE name = "isParagraph" -> el # NoElement /\ el = "p"
      [] OTHER -> FALSE

\* Variant of Predicate whose switch ends in the 'undefined' case: every
\* rule that is no function, boolean or string gives the constant true.
PredicateDefaultTrue(rule, el) ==
    CASE rule.type = "function" -> ApplyFunction(rule.val, el)
      [] rule.type = "boolean" -> rule.val = "true"
      [] rule.type = "string" -> IF el # NoElement THEN Matches(el, rule.val) ELSE FALSE
      [] OTHER -> TRUE

\* coerceActivateOnToPredicate( activateOn )( el )
Predicate(rule, el) ==
    CASE rule.type = "function" -> ApplyFunction(rule.val, el)
      [] rule.type = "boolean" -> rule.val = "true"
      [] rule.type = "string" -> IF el # NoElement THEN Matches(el, rule.val) ELSE FALSE
      [] rule.type = "undefined" -> TRUE
      [] OTHER -> FALSE

\* elements.push( null )
PushNull(elements) == Append(elements, NoElement)

\* Variant of Scan that stops before elements[ 0 ] (while ( --j ) ...).
RECURSIVE ScanSkipFirst(_, _, _)
ScanSkipFirst(rule, elements, j) ==
    IF j <= 1 THEN FALSE
    ELSE IF Predicate(rule, elements[j]) THEN TRUE
    ELSE ScanSkipFirst(rule, elements, j - 1)

\* while ( j ) { if ( shouldActivate( elements[ --j ] ) ) return true; } return false;
RECURSIVE Scan(_, _, _)
Scan(rule, elements, j) ==
    IF j = 0 THEN FALSE
    ELSE IF Predicate(rule, elements[j]) THEN TRUE
    ELSE Scan(rule, elements, j - 1)

\* Tab.prototype.shouldActivateForElements: the value returned; the array
\* passed in is left with the pushed null (PushNull).
ShouldActivateForElements(rule, elements) ==
    Scan(rule, PushNull(elements), Len(PushNull(elements)))

\* --------------------------------------------------------------- the tab set
\* new Tab( options, editable ): Tab constructor and Tab.prototype.init. The
\* handle is appended hidden; index is editable.tabs.length at that moment.
NewTab(activateOn, index) ==
    [index |-> index, rule |-> activateOn, activated |-> FALSE,
     shown |-> FALSE, uiTabsActive |-> FALSE]

\* A tab set: editable.tabs with the state of the jQuery UI tabs widget on
\* its container (the widget's selected option; the ui-tabs-active class is
\* kept on each tab's handle).
\*
\* container.tabs(): the widget makes the first tab its active tab and puts
\* ui-tabs-active on that tab's handle.
TabsCreate(tabs) ==
    [tabs |-> [k \in 1..Len(tabs) |-> [tabs[k] EXCEPT !.uiTabsActive = (k = 1)]],
     selected |-> IF Len(tabs) > 0 THEN 0 ELSE -1]

\* container.tabs( 'option', 'selected' )
TabsOptionSelected(ts) == ts.selected

\* container.tabs( 'select', i ): a click on the handle of tab i. A click on
\* the widget's active tab does nothing; otherwise the old active tab loses
\* ui-tabs-active, tab i gets it and becomes the selected option.
TabsSelect(ts, i) ==
    IF i = ts.selected \/ i < 0 \/ i >= Len(ts.tabs) THEN ts
    ELSE [tabs |-> [k \in 1..Len(ts.tabs) |->
                      IF k = i + 1 THEN [ts.tabs[k] EXCEPT !.uiTabsActive = TRUE]
                      ELSE IF k = ts.selected + 1 THEN [ts.tabs[k] EXCEPT !.uiTabsActive = FALSE]
                      ELSE ts.tabs[k]],
          selected |-> i]

\* container.find( '.ui-tabs-active' ).length
NumUiTabsActive(ts) == Cardinality({k \in 1..Len(ts.tabs) : ts.tabs[k].uiTabsActive})

\* container.find( 'ul.aloha-toolbar-tab-handles>li' ).length
NumHandles(ts) == Len(ts.tabs)

\* Variant of Activate that selects the tab whenever it is activated.
ActivateAlwaysSelect(ts, i) ==
    IF NumHandles(ts) = 0 THEN ts
    ELSE TabsSelect([ts EXCEPT !.tabs[i + 1].shown = TRUE,
                               !.tabs[i + 1].activated = TRUE], i)

\* Tab.prototype.activate, for the tab with index i of tab set ts.
Activate(ts, i) ==
    IF NumHandles(ts) = 0 THEN ts
    ELSE LET t1 == [ts EXCEPT !.tabs[i + 1].shown = TRUE,
                              !.tabs[i + 1].activated = TRUE]
         IN  IF NumUiTabsActive(t1) = 0 THEN TabsSelect(t1, i)
             ELSE IF TabsOptionSelected(t1) = i THEN TabsSelect(t1, i)
             ELSE t1

\* for ( var i = 0; i < tabs.length; ++i ) if ( tabs[i].activated ) ...:
\* the index of the first activated tab at or after index i, or -1.
RECURSIVE FirstActivated(_, _)
FirstActivated(tabs, i) ==
    IF i >= Len(tabs) THEN -1
    ELSE IF tabs[i + 1].activated THEN i
    ELSE FirstActivated(tabs, i + 1)

\* Variant of Deactivate that hands the selection to the next tab in index
\* order without looking at its activated flag.
DeactivateSelectNext(ts, i) ==
    IF NumHandles(ts) = 0 THEN ts
    ELSE LET t1 == [ts EXCEPT !.tabs[i + 1].shown = FALSE,
                              !.tabs[i + 1].activated = FALSE]
         IN  IF i = TabsOptionSelected(t1)
             THEN TabsSelect(t1, (i + 1) % Len(t1.tabs))
             ELSE t1

\* Variant of Deactivate without the test that the tab is the selected one:
\* every deactivation hands the selection to the first activated tab.
DeactivateAlwaysReselect(ts, i) ==
    IF NumHandles(ts) = 0 THEN ts
    ELSE LET t1 == [ts EXCEPT !.tabs[i + 1].shown = FALSE,
                              !.tabs[i + 1].activated = FALSE]
         IN  IF FirstActivated(t1.tabs, 0) # -1
             THEN TabsSelect(t1, FirstActivated(t1.tabs, 0))
             ELSE [t1 EXCEPT !.tabs[i + 1].uiTabsActive = FALSE]

\* Tab.prototype.deactivate, for the tab with index i of tab set ts.
Deactivate(ts, i) ==
    IF NumHandles(ts) = 0 THEN ts
    ELSE LET t1 == [ts EXCEPT !.tabs[i + 1].shown = FALSE,
                              !.tabs[i + 1].activated = FALSE]
         IN  IF i = TabsOptionSelected(t1)
             THEN IF FirstActivated(t1.tabs, 0) # -1
                  THEN TabsSelect(t1, FirstActivated(t1.tabs, 0))
                  ELSE [t1 EXCEPT !.tabs[i + 1].uiTabsActive = FALSE]
             ELSE t1

\* Variant of CheckTab without the else branch: a tab once activated stays.
CheckTabNoDeactivate(ts, i, effective) ==
    IF ShouldActivateForElements(ts.tabs[i + 1].rule, effective)
    THEN IF ~ts.tabs[i + 1].activated THEN Activate(ts, i) ELSE ts
    ELSE ts

\* The body of the jQuery.each callback of checkActiveTabs for the tab with
\* index i; effective is the array as it is when the callback starts.
CheckTab(ts, i, effective) ==
    IF ShouldActivateForElements(ts.tabs[i + 1].rule, effective)
    THEN IF ~ts.tabs[i + 1].activated THEN Activate(ts, i) ELSE ts
    ELSE IF ts.tabs[i + 1].activated THEN Deactivate(ts, i) ELSE ts

\* jQuery.each( this.active.tabs, ... ) from index i on: every callback gets
\* the same effective array, which each shouldActivateForElements call has
\* extended by one null.
RECURSIVE EachTab(_, _, _)
EachTab(ts, i, effective) ==
    IF i >= Len(ts.tabs) THEN [ts |-> ts, effective |-> effective]
    ELSE EachTab(CheckTab(ts, i, effective), i + 1, PushNull(effective))

\* The array the callback of the tab with index i scans when the loop was
\* started with effective: the one array all callbacks share, after the
\* push of this tab's shouldActivateForElements and of every tab before it.
RECURSIVE ScannedByTab(_, _)
ScannedByTab(effective, i) ==
    IF i = 0 THEN PushNull(effective)
    ELSE PushNull(ScannedByTab(effective, i - 1))

\* var effective = []; ... effective.push( range.markupEffectiveAtStart[i] )
RECURSIVE CopyMarkup(_, _, _)
CopyMarkup(markup, i, effective) ==
    IF i >= Len(markup) THEN effective
    ELSE CopyMarkup(markup, i + 1, Append(effective, markup[i + 1]))

Effective(range) ==
    IF range.defined /\ range.hasMarkup THEN CopyMarkup(range.markup, 0, <<>>)
    ELSE <<>>

\* Variant of TabOptions without the automatically created tab: settings
\* without a tab list give no tab at all.
TabOptionsNoFallback(setting) == setting.list

\* Ui.toolbar.render with Ui.toolbar.initializeTabs: the tab options read
\* from the settings, or the one automatically created tab.
TabOptions(setting) ==
    IF setting.present /\ Len(setting.list) > 0 THEN setting.list
    ELSE <<RuleTrue>>

RECURSIVE InitializeTabs(_, _)
InitializeTabs(options, tabs) ==
    IF Len(tabs) >= Len(options) THEN TabsCreate(tabs)
    ELSE InitializeTabs(options, Append(tabs, NewTab(options[Len(tabs) + 1], Len(tabs))))

Render(setting) ==
    LET ts == InitializeTabs(TabOptions(setting), <<>>)
    IN  [toolbar |-> TRUE, tabs |-> ts.tabs, selected |-> ts.selected]

\* ---------------------------------------------------------------- the state
VARIABLES
    settings,       \* settings.toolbar.tabs, the configuration every editable inherits
    edit,           \* per editable: toolbar (rendered?), tabs, the widget's selected option
    active,         \* Ui.toolbar.active: an editable, "null" or "false"
    attached,       \* the editables whose toolbar is a child of Ui.toolbar.element
    displayed,      \* Ui.toolbar.element faded in (TRUE) or out (FALSE)
    fades,          \* completion callbacks of fadeOut not yet run, oldest first
    timers,         \* setTimeout callbacks not yet run, oldest first
    eventHandled,   \* Aloha.eventHandled
    lastOp,         \* history: the operation of the last step ("typeError": it threw)
    ret             \* history: the last direct call of a pure function and its result

vars == <<settings, edit, active, attached, displayed, fades,
          timers, eventHandled, lastOp, ret>>

NotRendered == [toolbar |-> FALSE, tabs |-> <<>>, selected |-> -1]

Op(name, e, i, ts) ==
    [op |-> name, e |-> e, i |-> i,
     psel |-> ts.selected,
     pact |-> {k \in 0..(Len(ts.tabs) - 1) : ts.tabs[k + 1].activated}]

NoCall == [fn |-> "none", rule |-> RuleUndefined, elements |-> <<>>, result |-> FALSE]

\* The state once the module has run Ui.toolbar.create().
Init ==
    /\ settings \in Configs
    /\ edit = [e \in Editables |-> NotRendered]
    /\ active = "null"
    /\ attached = {}
    /\ displayed = FALSE
    /\ fades = <<>>
    /\ timers = <<>>
    /\ eventHandled = FALSE
    /\ lastOp = Op("create", "", -1, NotRendered)
    /\ ret = NoCall

\* ------------------------------------------------------- Ui.toolbar.show
\* Variant of ShowState that renders on every call, also when the editable
\* already has a toolbar.
ShowStateAlwaysRender(e) ==
    /\ edit' = [edit EXCEPT ![e] = Render(settings)]
    /\ attached' = {e}
    /\ displayed' = TRUE
    /\ active' = e

\* The effect of show( editable ) on edit, attached, displayed and active.
ShowState(e) ==
    /\ edit' = IF ~edit[e].toolbar THEN [edit EXCEPT ![e] = Render(settings)] ELSE edit
    /\ attached' = {e}
    /\ displayed' = TRUE
    /\ active' = e

\* History: every deferred hide still pending has now seen an activation.
MarkReactivated == [k \in 1..Len(timers) |-> [timers[k] EXCEPT !.reactivated = TRUE]]

Show(e) ==
    /\ ShowState(e)
    /\ timers' = MarkReactivated
    /\ lastOp' = Op("show", "", -1, NotRendered)
    /\ UNCHANGED <<settings, fades, eventHandled, ret>>

\* Aloha.bind( "aloha-editable-activated", ... )
EditableActivated(e) ==
    /\ ShowState(e)
    /\ timers' = MarkReactivated
    /\ lastOp' = Op("show", "", -1, NotRendered)
    /\ UNCHANGED <<settings, fades, eventHandled, ret>>

\* ------------------------------------------------------- Ui.toolbar.hide
\* The effect of hide( editable ) on active, displayed and fades.
HideState(e) ==
    IF ~eventHandled
    THEN /\ active' = "null"
         /\ displayed' = FALSE
         /\ fades' = Append(fades, e)
    ELSE UNCHANGED <<active, displayed, fades>>

Hide(e) ==
    /\ eventHandled \/ Len(timers) + Len(fades) < MaxPending
    /\ HideState(e)
    /\ lastOp' = Op("hide", e, -1, NotRendered)
    /\ UNCHANGED <<settings, edit, attached, timers, eventHandled, ret>>

\* The completion callback of fadeOut: editable.toolbar.detach(). The toolbar
\* of an editable that was never rendered is undefined and the call throws.
FadeOutComplete ==
    /\ fades # <<>>
    /\ LET e == Head(fades)
       IN  IF edit[e].toolbar
           THEN /\ attached' = attached \ {e}
                /\ lastOp' = Op("fadeOutComplete", "", -1, NotRendered)
           ELSE /\ attached' = attached
                /\ lastOp' = Op("typeError", "", -1, NotRendered)
    /\ fades' = Tail(fades)
    /\ UNCHANGED <<settings, edit, active, displayed, timers, eventHandled, ret>>

\* ------------------------------------------- aloha-editable-deactivated
\* Variant of EditableDeactivated that hides at once instead of waiting for
\* the callback.
EditableDeactivatedAtOnce(e) ==
    /\ Len(timers) + Len(fades) < MaxPending
    /\ active' = "null"
    /\ displayed' = FALSE
    /\ timers' = Append(timers, [editable |-> e, reactivated |-> FALSE])
    /\ lastOp' = Op("editableDeactivated", "", -1, NotRendered)
    /\ UNCHANGED <<settings, edit, attached, fades, eventHandled, ret>>

\* Aloha.bind( "aloha-editable-deactivated", ... ): toolbar.active = false
\* and a callback is scheduled 10 ms later.
EditableDeactivated(e) ==
    /\ Len(timers) + Len(fades) < MaxPending
    /\ active' = "false"
    /\ timers' = Append(timers, [editable |-> e, reactivated |-> FALSE])
    /\ lastOp' = Op("editableDeactivated", "", -1, NotRendered)
    /\ UNCHANGED <<settings, edit, attached, displayed, fades, eventHandled, ret>>

\* Whether a value of Ui.toolbar.active is truthy.
Truthy(a) == a \in Editables

\* The setTimeout callback: if ( !toolbar.active ) toolbar.hide( editable ).
\* All callbacks have the same delay, so they run in the order scheduled.
TimerFire ==
    /\ timers # <<>>
    /\ LET t == Head(timers)
       IN  /\ IF ~Truthy(active)
              THEN HideState(t.editable)
              ELSE UNCHANGED <<active, displayed, fades>>
           /\ lastOp' = Op("timer", t.editable, -1, NotRendered)
    /\ timers' = Tail(timers)
    /\ UNCHANGED <<settings, edit, attached, eventHandled, ret>>

\* ------------------------------------------------ the mouse handlers
\* editable.mousedown( ... ): Aloha.eventHandled = true
MouseDown ==
    /\ ~eventHandled
    /\ eventHandled' = TRUE
    /\ lastOp' = Op("mousedown", "", -1, NotRendered)
    /\ UNCHANGED <<settings, edit, active, attached, displayed, fades, timers, ret>>

\* editable.mouseup( ... ): Aloha.eventHandled = false
MouseUp ==
    /\ eventHandled
    /\ eventHandled' = FALSE
    /\ lastOp' = Op("mouseup", "", -1, NotRendered)
    /\ UNCHANGED <<settings, edit, active, attached, displayed, fades, timers, ret>>

\* ------------------------------------------- Ui.toolbar.checkActiveTabs
\* Variant of CheckActiveTabsState that falls back to the editable whose
\* toolbar is attached when there is no active editable.
CheckActiveTabsOfAttached(range) ==
    LET target == IF Truthy(active) THEN {active} ELSE attached
    IN  IF target # {}
        THEN LET e == CHOOSE x \in target : TRUE
                 ts == EachTab([tabs |-> edit[e].tabs, selected |-> edit[e].selected],
                               0, Effective(range)).ts
             IN  edit' = [edit EXCEPT ![e].tabs = ts.tabs, ![e].selected = ts.selected]
        ELSE edit' = edit

\* The effect of checkActiveTabs( range ) on edit.
CheckActiveTabsState(range) ==
    IF Truthy(active)
    THEN LET ts == EachTab([tabs |-> edit[active].tabs, selected |-> edit[active].selected],
                           0, Effective(range)).ts
         IN  edit' = [edit EXCEPT ![active].tabs = ts.tabs, ![active].selected = ts.selected]
    ELSE edit' = edit

CheckActiveTabs(range) ==
    /\ CheckActiveTabsState(range)
    /\ lastOp' = Op("checkActiveTabs", "", -1,
                    IF Truthy(active) THEN edit[active] ELSE NotRendered)
    /\ UNCHANGED <<settings, active, attached, displayed, fades, timers, eventHandled, ret>>

\* Aloha.bind( 'aloha-selection-changed', ... )
SelectionChanged(range) ==
    /\ CheckActiveTabsState(range)
    /\ lastOp' = Op("checkActiveTabs", "", -1, NotRendered)
    /\ UNCHANGED <<settings, active, attached, displayed, fades, timers, eventHandled, ret>>

\* Variant of MarkupAfter in which effective is the range's own array and
\* not a copy: the null entries pushed for the tabs end up in the range.
MarkupAfterAliased(range, ts) ==
    IF range.defined /\ range.hasMarkup
    THEN EachTab([tabs |-> ts.tabs, selected |-> ts.selected], 0, range.markup).effective
    ELSE range.markup

\* range.markupEffectiveAtStart once checkActiveTabs( range ) has looped over
\* the tabs ts: the entries are copied into the new array effective and the
\* pushes go to that array, the range's own array is only read.
MarkupAfter(range, ts) == range.markup

\* Aloha.bind( 'aloha-selection-changed', ... ), with the array of the range
\* object as the other handlers of the event find it afterwards.
SelectionChangedObserved(range) ==
    /\ CheckActiveTabsState(range)
    /\ lastOp' = Op("checkActiveTabs", "", -1, NotRendered)
    /\ ret' = [fn |-> "checkActiveTabs", rule |-> RuleUndefined,
               elements |-> MarkupAfter(range, IF Truthy(active) THEN edit[active]
                                               ELSE NotRendered),
               result |-> Truthy(active)]
    /\ UNCHANGED <<settings, active, attached, displayed, fades, timers, eventHandled>>

\* --------------------------------------------- direct calls on one tab
\* tab.activate() on the tab with index i of a rendered editable.
TabActivate(e, i) ==
    /\ edit[e].toolbar
    /\ i < Len(edit[e].tabs)
    /\ LET ts == Activate([tabs |-> edit[e].tabs, selected |-> edit[e].selected], i)
       IN  edit' = [edit EXCEPT ![e].tabs = ts.tabs, ![e].selected = ts.selected]
    /\ lastOp' = Op("activate", e, i, edit[e])
    /\ UNCHANGED <<settings, active, attached, displayed, fades, timers, eventHandled, ret>>

\* tab.deactivate() on the tab with index i of a rendered editable.
TabDeactivate(e, i) ==
    /\ edit[e].toolbar
    /\ i < Len(edit[e].tabs)
    /\ LET ts == Deactivate([tabs |-> edit[e].tabs, selected |-> edit[e].selected], i)
       IN  edit' = [edit EXCEPT ![e].tabs = ts.tabs, ![e].selected = ts.selected]
    /\ lastOp' = Op("deactivate", e, i, edit[e])
    /\ UNCHANGED <<settings, active, attached, displayed, fades, timers, eventHandled, ret>>

\* ------------------------------------------ direct calls, pure functions
\* tab.shouldActivate( el ) for a tab built with the given activateOn.
CallShouldActivate(rule, el) ==
    /\ ret' = [fn |-> "shouldActivate", rule |-> rule, elements |-> <<el>>,
               result |-> Predicate(rule, el)]
    /\ UNCHANGED <<settings, edit, active, attached, displayed, fades,
                   timers, eventHandled, lastOp>>

\* tab.shouldActivateForElements( elements ) for such a tab.
CallShouldActivateForElements(rule, elements) ==
    /\ ret' = [fn |-> "shouldActivateForElements", rule |-> rule, elements |-> elements,
               result |-> ShouldActivateForElements(rule, elements)]
    /\ UNCHANGED <<settings, edit, active, attached, displayed, fades,
                   timers, eventHandled, lastOp>>

\* ------------------------------------------------------ specifications
TabIndices(e) == 0..(Len(edit[e].tabs) - 1)

\* The toolbar as the editor drives it: the event handlers, their callbacks
\* and hide() called by other code.
Next ==
    \/ \E e \in Editables : Hide(e)
    \/ \E e \in Editables : EditableActivated(e)
    \/ \E e \in Editables : EditableDeactivated(e)
    \/ TimerFire
    \/ FadeOutComplete
    \/ MouseDown
    \/ MouseUp
    \/ \E r \in Ranges : SelectionChanged(r)

Spec == Init /\ [][Next]_vars

\* One editable's tab set with the methods of its tabs called one at a time.
NextTabs ==
    \/ \E e \in Editables : Show(e)
    \/ \E r \in Ranges : CheckActiveTabs(r)
    \/ \E e \in Editables : \E i \in TabIndices(e) : TabActivate(e, i)
    \/ \E e \in Editables : \E i \in TabIndices(e) : TabDeactivate(e, i)

SpecTabs == Init /\ [][NextTabs]_vars

\* The activation test of a tab called directly on every rule and input.
NextPure ==
    \/ \E rule \in Rules, el \in PureTags \cup {NoElement} : CallShouldActivate(rule, el)
    \/ \E rule \in Rules, m \in SeqsUpTo(PureTags, MaxList) : CallShouldActivateForElements(rule, m)

SpecPure == Init /\ [][NextPure]_vars

\* Editables activated one after the other and selection changes, with the
\* range object of each selection change looked at afterwards.
NextSelection ==
    \/ \E e \in Editables : EditableActivated(e)
    \/ \E r \in Ranges : SelectionChangedObserved(r)

SpecSelection == Init /\ [][NextSelection]_vars

\* ------------------------------------------------------------ the claims
\* The indices of the activated tabs of editable e.
Activated(e) == {k \in TabIndices(e) : edit[e].tabs[k + 1].activated}

\* The indices of the tabs of editable e whose handle carries ui-tabs-active.
Marked(e) == {k \in TabIndices(e) : edit[e].tabs[k + 1].uiTabsActive}

Lowest(S) == CHOOSE k \in S : \A j \in S : k <= j

\* C1: after checkActiveTabs( range ) with an active editable, every tab of
\* that editable is activated exactly if shouldActivateForElements holds of
\* its rule on the effective elements of this range, whatever the tabs'
\* activation was before the call.
C1_ActivationFollowsSnapshot ==
    [][\A r \in Ranges :
         (CheckActiveTabs(r) /\ Truthy(active)) =>
             \A k \in 1..Len(edit[active].tabs) :
                 edit'[active].tabs[k].activated
                     = ShouldActivateForElements(edit[active].tabs[k].rule, Effective(r))]_vars

\* C1 witness: a call with an active editable has left the Table tab
\* activated and the Lists tab deactivated although Lists was activated and
\* Table was not before the call.
C1_Witness ==
    /\ lastOp.op = "checkActiveTabs"
    /\ Truthy(active)
    /\ \E k, j \in TabIndices(active) :
          /\ edit[active].tabs[k + 1].rule = RuleTable
          /\ edit[active].tabs[k + 1].activated
          /\ edit[active].tabs[j + 1].rule = RuleLists
          /\ ~edit[active].tabs[j + 1].activated
          /\ lastOp.pact = {j}

\* C2: whenever some tab of a rendered editable is activated, the tab the
\* widget has selected is an activated tab.
C2_SelectedTabIsActivated ==
    \A e \in Editables :
        (edit[e].toolbar /\ Activated(e) # {}) => edit[e].selected \in Activated(e)

\* C3: deactivate() on the selected tab while another tab is activated moves
\* the selection to the activated tab with the lowest index: the selected
\* tab is then activated and is not the tab deactivated.
C3_ReselectsLowestActivated ==
    \A e \in Editables :
        ( /\ lastOp.op = "deactivate"
          /\ lastOp.e = e
          /\ lastOp.psel = lastOp.i
          /\ lastOp.pact \ {lastOp.i} # {} )
        => /\ edit[e].selected = Lowest(lastOp.pact \ {lastOp.i})
           /\ edit[e].selected \in Activated(e)
           /\ edit[e].selected # lastOp.i

\* C3 witness: tabs 0 and 1 activated, tab 2 not, tab 1 selected; tab 1 has
\* been deactivated and tab 0 is selected.
C3_Witness ==
    \E e \in Editables :
        /\ lastOp.op = "deactivate"
        /\ lastOp.e = e
        /\ lastOp.i = 1
        /\ lastOp.psel = 1
        /\ lastOp.pact = {0, 1}
        /\ Len(edit[e].tabs) = 3
        /\ edit[e].selected = 0

\* C4: deactivate() on the selected tab when it is the only activated tab
\* leaves no tab selected: no handle carries ui-tabs-active and the widget
\* records no selected index.
C4_SelectionCleared ==
    \A e \in Editables :
        ( /\ lastOp.op = "deactivate"
          /\ lastOp.e = e
          /\ lastOp.psel = lastOp.i
          /\ lastOp.pact = {lastOp.i} )
        => /\ Marked(e) = {}
           /\ edit[e].selected \notin TabIndices(e)

\* C5: activate() on a tab that is already activated leaves it activated
\* and leaves the selected index as it was.
C5_ActivateIdempotent ==
    \A e \in Editables :
        ( /\ lastOp.op = "activate"
          /\ lastOp.e = e
          /\ lastOp.i \in lastOp.pact )
        => /\ lastOp.i \in Activated(e)
           /\ edit[e].selected = lastOp.psel

\* C5 witness: activate() has been called on an activated tab that is not
\* the selected one.
C5_Witness ==
    \E e \in Editables :
        /\ lastOp.op = "activate"
        /\ lastOp.e = e
        /\ lastOp.i \in lastOp.pact
        /\ lastOp.psel # lastOp.i
        /\ lastOp.psel \in lastOp.pact

\* C6: checkActiveTabs with no active editable (active is null or false)
\* changes no tab and no selected index of any editable.
C6_NoActiveNoChange ==
    [][(lastOp'.op = "checkActiveTabs" /\ ~Truthy(active)) => edit' = edit]_vars

\* C6 witness: checkActiveTabs has run inside the window after an
\* editable-deactivated event, with an activated tab in a rendered editable.
C6_Witness ==
    /\ lastOp.op = "checkActiveTabs"
    /\ active = "false"
    /\ timers # <<>>
    /\ \E e \in Editables : Activated(e) # {} /\ e \in attached

\* C7: the predicate of a rule is constantly true for undefined, constantly
\* the rule for a boolean, the structural match (false on no element) for a
\* selector string and constantly false for a number or an object; so
\* shouldActivateForElements is true on every list for undefined and true,
\* and false on every list for false and for the unsupported shapes.
C7_PredicateOfRule ==
    /\ ret.fn = "shouldActivate" =>
          LET el == ret.elements[1]
          IN  /\ ret.rule.type = "undefined" => ret.result
              /\ ret.rule.type = "boolean" => (ret.result <=> ret.rule.val = "true")
              /\ ret.rule.type = "string" =>
                    (ret.result <=> (el # NoElement /\ el \in SelectorTags(ret.rule.val)))
              /\ ret.rule.type \in {"number", "object"} => ~ret.result
    /\ ret.fn = "shouldActivateForElements" =>
          /\ ret.rule \in {RuleUndefined, RuleTrue} => ret.result
          /\ ret.rule \in {RuleFalse, RuleNumber, RuleNull} => ~ret.result

\* C7 witness: a rule of an unsupported shape has been tested on the empty
\* list and has refused it.
C7_Witness ==
    /\ ret.fn = "shouldActivateForElements"
    /\ ret.rule = RuleNumber
    /\ ret.elements = <<>>
    /\ ~ret.result

\* C8: shouldActivateForElements is true exactly if the predicate holds of
\* some element of the list or of no element; for a selector string that is
\* exactly if some element of the list matches the selector.
C8_AnyElementOrNone ==
    ret.fn = "shouldActivateForElements" =>
        /\ ret.result <=>
              \/ \E k \in 1..Len(ret.elements) : Predicate(ret.rule, ret.elements[k])
              \/ Predicate(ret.rule, NoElement)
        /\ ret.rule.type = "string" =>
              (ret.result <=>
                 \E k \in 1..Len(ret.elements) : Matches(ret.elements[k], ret.rule.val))

\* C8 witness: rule 'ul,ol' on [p, ul] is true; the match is the element the
\* scan reaches first.
C8_Witness ==
    /\ ret.fn = "shouldActivateForElements"
    /\ ret.rule = RuleLists
    /\ ret.elements = <<"ul", "p">>
    /\ ret.result

\* C9: hide( X ) while another editable Y is the active one leaves Y active
\* and the toolbar displayed.
C9_HideOfOtherKeepsActive ==
    [][\A x \in Editables :
         (lastOp'.op = "hide" /\ lastOp'.e = x /\ Truthy(active) /\ active # x)
             => (active' = active /\ displayed' = displayed)]_vars

\* C10: the deferred callback of a deactivation that an activation followed
\* inside its window neither hides the toolbar nor changes the active
\* editable.
C10_ReactivatedTimerDoesNotHide ==
    [][(lastOp'.op = "timer" /\ timers # <<>> /\ Head(timers).reactivated)
           => (active' = active /\ displayed' = displayed)]_vars

\* C11: while an editable is the active one its toolbar is the toolbar
\* attached to the toolbar element: show( X ) attaches it and nothing but a
\* later hide or show call takes it off.
C11_ActiveToolbarStaysAttached ==
    Truthy(active) => attached = {active}

\* The number of null entries of an array of elements.
NumNulls(elements) == Cardinality({k \in 1..Len(elements) : elements[k] = NoElement})

\* C13: in a checkActiveTabs call every tab's shouldActivateForElements
\* scans an array with exactly one null entry.
C13_OneSentinelPerEvaluation ==
    [][\A r \in Ranges :
         (CheckActiveTabs(r) /\ Truthy(active)) =>
             \A i \in TabIndices(active) : NumNulls(ScannedByTab(Effective(r), i)) = 1]_vars

\* C15: the toolbar is never left displayed with no active editable and no
\* deferred callback pending that would still hide it.
C15_NoToolbarLeftDisplayed ==
    ~(active = "false" /\ displayed /\ timers = <<>>)

\* C18: deactivate() on a tab that is not the selected tab clears that
\* tab's activated flag and hides its handle; the selected index and the
\* activated flags of the other tabs stay as they were.
C18_DeactivateUnselectedIsLocal ==
    \A e \in Editables :
        ( /\ lastOp.op = "deactivate"
          /\ lastOp.e = e
          /\ lastOp.psel # lastOp.i )
        => /\ edit[e].selected = lastOp.psel
           /\ Activated(e) = lastOp.pact \ {lastOp.i}
           /\ ~edit[e].tabs[lastOp.i + 1].shown

\* C18 witness: an activated tab that was not the selected one has been
\* deactivated while the selected tab was activated.
C18_Witness ==
    \E e \in Editables :
        /\ lastOp.op = "deactivate"
        /\ lastOp.e = e
        /\ lastOp.i \in lastOp.pact
        /\ lastOp.psel # lastOp.i
        /\ lastOp.psel \in lastOp.pact
        /\ edit[e].selected = lastOp.psel

\* C19: no callback throws: the completion callback of a hide never finds
\* an editable without a toolbar.
C19_NoCallbackThrows ==
    lastOp.op # "typeError"

\* The tabs of editable e are the declared ones, in the order declared, with
\* the indices 0, 1, 2, ...
TabsAsDeclared(e) ==
    /\ Len(edit[e].tabs) = Len(TabOptions(settings))
    /\ \A k \in 1..Len(edit[e].tabs) :
           /\ edit[e].tabs[k].index = k - 1
           /\ edit[e].tabs[k].rule = TabOptions(settings)[k]

\* C12: the tabs of an editable are built once: a rendered editable stays
\* rendered, a show of an editable already rendered leaves its tabs, their
\* flags and the selected index as they are, and every step that changes a
\* rendered editable, its first show included, leaves it with as many tabs
\* as were declared, with the indices 0..n-1 in declaration order.
C12_TabSetBuiltOnce ==
    [][\A e \in Editables :
         /\ edit[e].toolbar =>
               /\ edit'[e].toolbar
               /\ lastOp'.op = "show" => edit'[e] = edit[e]
         /\ (edit'[e].toolbar /\ edit'[e] # edit[e]) => TabsAsDeclared(e)']_vars

\* C12 witness: show has run for an editable whose three tabs were built
\* before and of which one is activated.
C12_Witness ==
    /\ lastOp.op = "show"
    /\ Truthy(active)
    /\ Len(edit[active].tabs) = 3
    /\ Activated(active) # {}

\* C14 as stated: the editable-deactivated handler leaves Ui.toolbar.active
\* on the editable that was active.
C14_ActiveKeptDuringGrace ==
    [][(lastOp'.op = "editableDeactivated" /\ Truthy(active)) => active' = active]_vars

\* C14 amended: the editable-deactivated handler does not hide: it sets
\* Ui.toolbar.active to false at once, schedules one callback and leaves
\* the toolbar displayed, attached and its tabs as they are; while active is
\* false a selection change changes no tab; active goes from false to null
\* only in a hide, which also fades the toolbar out.
C14_DeactivationDeferred ==
    [][/\ lastOp'.op = "editableDeactivated" =>
            /\ active' = "false"
            /\ displayed' = displayed
            /\ attached' = attached
            /\ edit' = edit
            /\ Len(timers') = Len(timers) + 1
       /\ (active = "false" /\ lastOp'.op = "checkActiveTabs") => edit' = edit
       /\ (active = "false" /\ active' = "null") =>
            /\ lastOp'.op \in {"timer", "hide"}
            /\ ~displayed']_vars

\* C14 witness: the handler has just run for a displayed toolbar, the
\* callback is pending.
C14_Witness ==
    /\ lastOp.op = "editableDeactivated"
    /\ active = "false"
    /\ displayed
    /\ attached # {}
    /\ timers # <<>>

\* C16: a selection change touches the tabs of the active editable only:
\* every other editable keeps its tabs, flags and selected index, and the
\* array of effective elements of the range is afterwards what it was.
C16_OnlyActiveTabsChange ==
    [][\A r \in Ranges :
         SelectionChangedObserved(r) =>
             /\ \A e \in Editables : e # active => edit'[e] = edit[e]
             /\ ret'.elements = r.markup]_vars

\* C16 witness: both editables are rendered and a selection change with an
\* element in its range has left the active one with other activated tabs
\* than the other one.
C16_Witness ==
    /\ ret.fn = "checkActiveTabs"
    /\ Len(ret.elements) > 0
    /\ Truthy(active)
    /\ \A e \in Editables : edit[e].toolbar
    /\ \E e \in Editables : Activated(e) # Activated(active)

\* C17: with settings that have no tab list every rendered editable has
\* exactly one tab, with activateOn true; no step takes its activated flag
\* away, and after every selection change with the editable active the tab
\* is activated and selected.
C17_FallbackTabAlwaysActivated ==
    [][settings = NoTabs =>
         \A e \in Editables :
            /\ edit'[e].toolbar =>
                  /\ Len(edit'[e].tabs) = 1
                  /\ edit'[e].tabs[1].rule = RuleTrue
            /\ (edit[e].toolbar /\ edit[e].tabs[1].activated) => edit'[e].tabs[1].activated
            /\ (lastOp'.op = "checkActiveTabs" /\ active = e) =>
                  /\ edit'[e].tabs[1].activated
                  /\ edit'[e].selected = 0]_vars

\* C17 witness: a selection change has run for an active editable without
\* a tab list; its one tab is activated and selected.
C17_Witness ==
    /\ settings = NoTabs
    /\ lastOp.op = "checkActiveTabs"
    /\ Truthy(active)
    /\ Len(edit[active].tabs) = 1
    /\ edit[active].tabs[1].activated
    /\ edit[active].selected = 0

====
